---- MODULE Spec2Model ----
(***************************************************************************)
(* Session and reconnection engine of aiophyn's MQTT client                *)
(* (src/aiophyn/mqtt.py: Timer, MQTTClient).                               *)
(*                                                                         *)
(* asyncio runs one callback or one task segment at a time, so every       *)
(* action below is the code between two suspension points (await) of one   *)
(* coroutine, or one whole transport callback.                             *)
(*                                                                         *)
(* The transport (paho-mqtt 1.x, not part of the repository) is the        *)
(* environment.  What the model takes from it:                             *)
(*   - is_connected() reports the client state, which a lost socket does   *)
(*     not change: it stays "connected" until connect() or disconnect()    *)
(*     is called (that is what makes `elif self.is_connected()` in         *)
(*     _on_disconnect reachable);                                          *)
(*   - connect() opens a new socket and drops the old one without an       *)
(*     on_disconnect callback; the CONNACK arrives later, at any time;     *)
(*   - one lost socket yields up to MaxCb on_disconnect callbacks in       *)
(*     quick succession, i.e. before any timed wait (>= 2 s) elapses;      *)
(*   - subscribe() returns (MQTT_ERR_NO_CONN, None) without a socket, and  *)
(*     otherwise a fresh message id; ids are never reused (MaxMid bounds   *)
(*     how many the model hands out, further requests are refused).        *)
(***************************************************************************)
EXTENDS Integers, Sequences, FiniteSets, TLC

\* ------------------------------------------------------------ bounds
MaxTasks == 2
MaxCb == 2
MaxMid == 2
NumCallers == 2
MaxFaults == 2
MaxTopicLen == 6
MaxMsgs == 2

\* ------------------------------------------------- program constants
max_attempts == 20
t_initial == 2
t_medium == 10
t_long == 60
t_watchdog == 5
t_health == 3600

Topics == {"A", "B"}
NoTopic == "none"
TaskIds == 1..MaxTasks
Callers == 1..NumCallers
Mids == 0..MaxMid
Hosts == {"h1"}
Kinds == {"connect", "disconnect", "update"}
Targets == {"f", "g"}
Responses == {"good", "request_failed", "no_field", "bad_url"}

\* The text of a topic, in pieces: the separator, the two words of the
\* routing prefix, and any other text.
Sym == {"/", "prd", "app_subscriptions", "x"}
Prefix == <<"prd", "/", "app_subscriptions", "/">>
MsgTopics == UNION {[1..n -> Sym] : n \in 0..MaxTopicLen}
Payloads == {"json_1", "json_2", "text", "bytes"}
KindNames == Kinds \cup {"connected", "disconnected", "message"}

VARIABLES
    tstate,         \* paho client state: "new", "connecting", "connected", "disconnecting"
    sock,           \* the transport has an open socket
    ncb,            \* on_disconnect callbacks delivered for the current socket
    inflight,       \* the requests whose SUBACK the broker has yet to deliver:
                    \* message id -> topic
    nextMid,        \* next message id the transport assigns
    connect_evt,    \* self.connect_evt is set
    disconnect_evt, \* self.disconnect_evt: "None", or an Event that is "clear" or "set"
    reconnect_evt,  \* self.reconnect_evt is set
    connect_task,   \* self.connect_task: "None" or "Task"
    topics,         \* self.topics
    pending_acks,   \* self.pending_acks
    timer,          \* reconnect_timer's task
    app,            \* the application task calling connect / disconnect_and_wait
    task,           \* the _do_reconnect tasks
    subw,           \* application tasks inside _subscribe_with_ack
    hist,           \* history: what the claims are stated about
    faults,         \* failures the environment has produced (bounded in Spec)
    host,           \* self.host: "none" until get_mqtt_info has returned one
    handlers,       \* self._handlers: kind -> list of targets
    hq,             \* handler invocations scheduled by ensure_future, oldest first
    calls,          \* handler invocations that have run, oldest first
    inbox           \* messages the broker has sent and the client has yet to read

transportVars == <<tstate, sock, ncb, inflight, nextMid>>
subVars == <<topics, pending_acks, subw>>
dispVars == <<handlers, hq, calls, inbox>>
sessionVars == <<tstate, sock, ncb, inflight, nextMid, connect_evt,
                 disconnect_evt, reconnect_evt, connect_task, topics,
                 pending_acks, timer, app, task, subw, faults, host>>
vars == <<tstate, sock, ncb, inflight, nextMid, connect_evt, disconnect_evt,
          reconnect_evt, connect_task, topics, pending_acks, timer, app, task,
          subw, hist, faults, host, handlers, hq, calls, inbox>>

\* ------------------------------------------------------------ helpers
NoAck == [topic |-> NoTopic, waiter |-> 0]
FreeTask == [pc |-> "free", attempts |-> 0, t |-> t_initial, woken |-> FALSE,
             todo |-> {}, mid |-> 0, cancel |-> FALSE]
IdleCaller == [pc |-> "idle", mid |-> 0, woken |-> FALSE]

InLoop == {"backoff", "info", "exec", "wait_conn", "resub_wait"}
Spawned == {"spawned_cb", "spawned_timer"}
Running == {i \in TaskIds : task[i].pc \in InLoop}
FreeIds == {i \in TaskIds : task[i].pc = "free"}
LowestFree == CHOOSE i \in FreeIds : \A j \in FreeIds : i <= j

\* A task is ready to run: created and not yet started, or its wait is over.
\* The event loop runs it in its next iteration, so no timed wait expires and
\* no request to another host completes before it has run; transport
\* callbacks and calls of the application can still come first.
TaskReady ==
    \/ \E i \in TaskIds : task[i].pc \in Spawned
    \/ \E i \in TaskIds :
          task[i].pc \in {"wait_conn", "resub_wait"} /\ task[i].woken
    \/ \E i \in TaskIds : task[i].cancel
    \/ \E c \in Callers : subw[c].pc = "wait" /\ subw[c].woken
    \/ timer = "pw_fired"
    \/ app = "dw_fired"

\* MQTTClient.is_connected
is_connected == tstate = "connected"

\* A waiter on the Event that self.disconnect_evt names loses it when the
\* attribute is rebound, and is woken when that Event is set.
Orphan(s) == CASE s = "dw_cur" -> "dw_orphan"
               [] s = "pw_cur" -> "pw_orphan"
               [] OTHER -> s
Fire(s) == CASE s = "dw_cur" -> "dw_fired"
             [] s = "pw_cur" -> "pw_fired"
             [] OTHER -> s

\* A timed wait of the program (>= 2 s) has elapsed: the duplicate callbacks of
\* an earlier socket loss are over.
Elapsed(n) == IF n = 0 THEN 0 ELSE MaxCb + 1

\* asyncio.create_task(self._do_reconnect(True))
Spawn(tk, kind) == [tk EXCEPT ![LowestFree] = [FreeTask EXCEPT !.pc = kind]]

NoRequests == [m \in Mids |-> NoTopic]
NoHandlers == [k \in Kinds |-> <<>>]

\* The elements of a list.
Range(f) == {f[k] : k \in DOMAIN f}

Init ==
    /\ tstate = "new"
    /\ sock = FALSE
    /\ ncb = 0
    /\ inflight = NoRequests
    /\ nextMid = 1
    /\ connect_evt = FALSE
    /\ disconnect_evt = "None"
    /\ reconnect_evt = FALSE
    /\ connect_task = "None"
    /\ topics = <<>>
    /\ pending_acks = [m \in Mids |-> NoAck]
    /\ timer = "off"
    /\ app = "idle"
    /\ task = [i \in TaskIds |-> FreeTask]
    /\ subw = [c \in Callers |-> IdleCaller]
    /\ hist = [cbLoops |-> 0, localDisc |-> FALSE, lastEnd |-> "none",
               ackedTopics |-> {}, res |-> "none", err |-> "none",
               gaveUp |-> FALSE,
               snap |-> {}, cnt |-> [t \in Topics |-> 0]]
    /\ faults = 0
    /\ host = "none"
    /\ handlers = NoHandlers
    /\ hq = <<>>
    /\ calls = <<>>
    /\ inbox = <<>>

\* ---------------------------------------------------------- transport
\* paho's connect(): a new socket (the old one is dropped without a callback and
\* the broker forgets what it had not acknowledged), or an exception.
ConnectResult(ok) ==
    /\ tstate' = IF ok THEN "connecting" ELSE "new"
    /\ sock' = ok
    /\ ncb' = 0
    /\ inflight' = NoRequests
    /\ UNCHANGED nextMid

\* paho's disconnect(): the state becomes "disconnecting"; a DISCONNECT is sent
\* only when there is a socket.
ClientDisconnect == IF sock THEN "disconnecting" ELSE "new"

\* paho's subscribe() accepts the request and assigns a message id.
Accepts == sock /\ nextMid <= MaxMid

\* ------------------------------------------------------------- Timer
\* Timer.cancel: the job is cancelled wherever it is, also inside
\* _process_reconnect waiting for the disconnect.
TimerCancel == "off"

\* A start that cancels the running job and starts none.
TimerStartsNothing(kind) == "off"

\* Timer.start(timeout): cancels the running job and starts a new one.
TimerStart(kind) == kind

\* The sleep of an armed job, in seconds: 5 for the watchdog that connect()
\* arms, 3600 for the health timer that _on_connect arms.
Period(kind) == CASE kind = "watchdog" -> t_watchdog
                  [] kind = "health" -> t_health
                  [] OTHER -> 0

\* ------------------------------------------------- transport callbacks
\* An accepted connect that leaves the timer as it is.
ConnectAcceptedNoTimer ==
    /\ UNCHANGED timer
    /\ connect_evt' = TRUE
    /\ task' = [i \in TaskIds |->
                  IF task[i].pc = "wait_conn" THEN [task[i] EXCEPT !.woken = TRUE]
                  ELSE task[i]]

\* _on_connect with reason_code == 0.
ConnectAccepted ==
    /\ timer' = TimerStart("health")
    /\ connect_evt' = TRUE
    /\ task' = [i \in TaskIds |->
                  IF task[i].pc = "wait_conn" THEN [task[i] EXCEPT !.woken = TRUE]
                  ELSE task[i]]

\* _on_connect with any other reason code: nothing but logging.
ConnectRefused == UNCHANGED <<timer, connect_evt, task>>

\* The CONNACK of the pending CONNECT arrives.
OnConnect(rc) ==
    /\ sock /\ tstate = "connecting"
    /\ IF rc = 0 THEN ConnectAccepted ELSE ConnectRefused
    /\ tstate' = IF rc = 0 THEN "connected" ELSE "new"
    /\ hist' = IF rc = 0 THEN [hist EXCEPT !.localDisc = FALSE] ELSE hist
    /\ UNCHANGED <<sock, ncb, inflight, nextMid, disconnect_evt, reconnect_evt,
                   connect_task, topics, pending_acks, app, subw>>
    /\ UNCHANGED host

\* The branch of _on_disconnect taken when self.disconnect_evt is not None.
DisconnectRequested == disconnect_evt # "None"

\* The branch of _on_disconnect that creates the reconnect task.
CreatesTask == connect_task = "None"

\* _on_disconnect: the transport reports the loss of the socket (the first
\* callback closes it), or repeats the report.
OnDisconnect ==
    /\ \/ sock /\ ncb = 0
       \/ ncb \in 1..(MaxCb - 1)
    /\ sock' = FALSE
    /\ ncb' = ncb + 1
    /\ inflight' = NoRequests
    /\ tstate' = IF tstate = "connected" THEN tstate ELSE "new"
    /\ connect_evt' = FALSE
    /\ IF DisconnectRequested
       THEN /\ disconnect_evt' = "set"
            /\ timer' = Fire(timer)
            /\ app' = Fire(app)
            /\ UNCHANGED <<connect_task, task>>
       ELSE IF is_connected
       THEN /\ timer' = TimerCancel
            /\ IF CreatesTask
               THEN /\ FreeIds # {}
                    /\ task' = Spawn(task, "spawned_cb")
                    /\ connect_task' = "Task"
               ELSE UNCHANGED <<connect_task, task>>
            /\ UNCHANGED <<disconnect_evt, app>>
       ELSE UNCHANGED <<disconnect_evt, timer, app, connect_task, task>>
    /\ hist' = IF ncb = 0 THEN [hist EXCEPT !.cbLoops = 0] ELSE hist
    /\ UNCHANGED <<nextMid, reconnect_evt, topics, pending_acks, subw>>
    /\ UNCHANGED host

\* ------------------------------------------------ _process_reconnect
\* The timer's sleep is over and the job runs _process_reconnect up to its
\* await, or to its end when the client is not connected.
TimerFire ==
    /\ timer \in {"watchdog", "health"}
    /\ ~TaskReady
    /\ ncb' = Elapsed(ncb)
    /\ disconnect_evt' = "clear"
    /\ app' = Orphan(app)
    /\ IF is_connected
       THEN /\ tstate' = ClientDisconnect
            /\ timer' = "pw_cur"
            /\ hist' = [hist EXCEPT !.localDisc = TRUE]
            /\ UNCHANGED <<connect_task, task>>
       ELSE /\ FreeIds # {}
            /\ task' = Spawn(task, "spawned_timer")
            /\ connect_task' = "Task"
            /\ timer' = "off"
            /\ UNCHANGED <<tstate, hist>>
    /\ UNCHANGED <<sock, inflight, nextMid, connect_evt, reconnect_evt, topics,
                   pending_acks, subw>>
    /\ UNCHANGED host

\* _process_reconnect after `await self.disconnect_evt.wait()`.
TimerResume ==
    /\ timer = "pw_fired"
    /\ FreeIds # {}
    /\ task' = Spawn(task, "spawned_timer")
    /\ connect_task' = "Task"
    /\ timer' = "off"
    /\ UNCHANGED <<transportVars, connect_evt, disconnect_evt, reconnect_evt,
                   topics, pending_acks, app, subw, hist>>
    /\ UNCHANGED host

\* ------------------------------------------------------- application
\* get_mqtt_info on the API's answer r: the exception it ends with, "none" when
\* it returns.  A failed request is caught by a clause that builds an
\* Exception without raising it, so the lookup in the unbound wss_data is
\* what fails; a missing wss_url is the KeyError of that lookup; a URL the
\* pattern does not match raises a plain Exception.
InfoError(r) == CASE r = "request_failed" -> "UnboundLocalError"
                  [] r = "no_field" -> "KeyError"
                  [] r = "bad_url" -> "Exception"
                  [] OTHER -> "none"

\* connect() up to `await self.get_mqtt_info()`.
AppConnect ==
    /\ app = "idle"
    /\ app' = "c_info"
    /\ hist' = [hist EXCEPT !.err = "none"]
    /\ UNCHANGED <<transportVars, connect_evt, disconnect_evt, reconnect_evt,
                   connect_task, topics, pending_acks, timer, task, subw>>
    /\ UNCHANGED host

\* connect(): get_mqtt_info returned or raised; on return the watchdog is armed
\* and the transport connect is handed to the executor.
AppConnectInfo(r) ==
    /\ app = "c_info"
    /\ ~TaskReady
    /\ IF InfoError(r) = "none"
       THEN /\ app' = "c_exec"
            /\ host' \in Hosts
            /\ timer' = TimerStart("watchdog")
            /\ UNCHANGED hist
       ELSE /\ app' = "idle"
            /\ hist' = [hist EXCEPT !.err = InfoError(r)]
            /\ UNCHANGED <<host, timer>>
    /\ UNCHANGED <<transportVars, connect_evt, disconnect_evt, reconnect_evt,
                   connect_task, topics, pending_acks, task, subw>>

\* connect(): the executor's client.connect returned or raised.
AppConnectExec(ok) ==
    /\ app = "c_exec"
    /\ ~TaskReady
    /\ ConnectResult(ok)
    /\ app' = "idle"
    /\ UNCHANGED <<connect_evt, disconnect_evt, reconnect_evt, connect_task,
                   topics, pending_acks, timer, task, subw, hist>>
    /\ UNCHANGED host

\* What disconnect() does to the reconnect timer.
DisconnectTimer(tm) == Orphan(tm)

\* disconnect_and_wait(): disconnect(), then the wait on the new Event.
AppDisconnectAndWait ==
    /\ app = "idle"
    /\ disconnect_evt' = "clear"
    /\ timer' = DisconnectTimer(timer)
    /\ tstate' = ClientDisconnect
    /\ app' = "dw_cur"
    /\ hist' = [hist EXCEPT !.localDisc = TRUE]
    /\ UNCHANGED <<sock, ncb, inflight, nextMid, connect_evt, reconnect_evt,
                   connect_task, topics, pending_acks, task, subw>>
    /\ UNCHANGED host

\* disconnect_and_wait() returns once its Event has been set.
AppDisconnectReturn ==
    /\ app = "dw_fired"
    /\ app' = "idle"
    /\ UNCHANGED <<transportVars, connect_evt, disconnect_evt, reconnect_evt,
                   connect_task, topics, pending_acks, timer, task, subw, hist>>
    /\ UNCHANGED host

\* ----------------------------------------------------- _do_reconnect
\* The guard at the head of _do_reconnect.
AlreadyReconnecting == reconnect_evt

\* The condition of the retry loop.
LoopContinues(n) == n < max_attempts

\* A count of attempts that stands still.
NextAttemptSame(n) == n

\* connect_attempts += 1
NextAttempt(n) == n + 1

\* A throttle that never escalates.
ThrottleFlat(t, n) == t

\* The throttle before an attempt that is not the first of its cycle.
Throttle(t, n) == IF n > 6 THEN t_long ELSE IF n > 3 THEN t_medium ELSE t

\* The test after the loop: the cycle logs that it gives up.
ReportsGivingUp(n) == n >= max_attempts

\* The exceptions an attempt fails with: those of get_mqtt_info and the expiry
\* of the 5 s around it, those of the transport's connect, and the expiry of
\* the 2 s wait for connect_evt.
InfoFailures == {"UnboundLocalError", "KeyError", "Exception", "TimeoutError"}
ConnectFailures == {"OSError", "WebsocketConnectionError"}
WaitFailures == {"TimeoutError"}
\* Those of one resubscription: _subscribe_with_ack's own 5 s, or the 5 s
\* around it.
ResubFailures == {"RequestError", "TimeoutError"}

\* Clauses that absorb the expiry of a timeout and nothing else.
HandlingTimeoutOnly(pc, e) ==
    IF e = "TimeoutError" THEN (IF pc = "resub_wait" THEN "next_topic"
                                ELSE "continue")
    ELSE "raise"

\* Clauses that count a failed resubscription as a failed attempt.
HandlingResubFatal(pc, e) ==
    IF e = "CancelledError" THEN "raise" ELSE "continue"

\* Clauses that swallow the cancellation of the throttle.
HandlingSwallow(pc, e) ==
    IF pc = "backoff" THEN "proceed"
    ELSE IF e = "CancelledError" THEN "raise"
    ELSE IF pc = "resub_wait" THEN "next_topic"
    ELSE "continue"

\* What the except clauses around the suspension point pc do with exception e:
\* a CancelledError is raised again everywhere, the clauses around one
\* resubscription log anything else and go to the next topic, and the clauses
\* of the attempt log anything else and `continue`.
Handling(pc, e) ==
    IF e = "CancelledError" \/ pc = "backoff" THEN "raise"
    ELSE IF pc = "resub_wait" THEN "next_topic"
    ELSE "continue"

\* An end of _do_reconnect whose finally clause leaves the in-progress flag set.
CycleEndKeepsFlag(i, how, h) ==
    /\ reconnect_evt' = reconnect_evt
    /\ disconnect_evt' = "None"
    /\ connect_task' = "None"
    /\ timer' = Orphan(timer)
    /\ app' = Orphan(app)
    /\ task' = [task EXCEPT ![i] = FreeTask]
    /\ hist' = [h EXCEPT !.lastEnd = how,
                         !.gaveUp = /\ how \in {"break", "exhausted"}
                                    /\ ReportsGivingUp(task[i].attempts)]

\* The end of _do_reconnect: the report, unless an exception passes it by, and
\* the finally clause.
CycleEnd(i, how, h) ==
    /\ reconnect_evt' = FALSE
    /\ disconnect_evt' = "None"
    /\ connect_task' = "None"
    /\ timer' = Orphan(timer)
    /\ app' = Orphan(app)
    /\ task' = [task EXCEPT ![i] = FreeTask]
    /\ hist' = [h EXCEPT !.lastEnd = how,
                         !.gaveUp = /\ how \in {"break", "exhausted"}
                                    /\ ReportsGivingUp(task[i].attempts)]

\* `continue`: back to the head of the loop, which either throttles before the
\* next attempt or is left for the finally clause.
Retry(i, h) ==
    IF LoopContinues(task[i].attempts)
    THEN /\ task' = [task EXCEPT ![i] = [@ EXCEPT
                        !.pc = "backoff", !.woken = FALSE,
                        !.t = Throttle(task[i].t, task[i].attempts)]]
         /\ hist' = h
         /\ UNCHANGED <<reconnect_evt, disconnect_evt, connect_task, timer, app>>
    ELSE CycleEnd(i, "exhausted", h)

\* How a cycle ends that exception e leaves from its suspension point pc.
EndKind(pc, e) ==
    IF e # "CancelledError" THEN "raised"
    ELSE IF pc = "backoff" THEN "cancelled_sleep" ELSE "cancelled"

\* An exception e reaches the task at its suspension point: the clauses around
\* it absorb it (`continue`) or let it pass to the finally clause.
Failed(i, e, h) ==
    LET what == Handling(task[i].pc, e)
    IN  IF what = "continue" THEN Retry(i, h)
        ELSE IF what = "proceed"
        THEN /\ task' = [task EXCEPT ![i] = [@ EXCEPT
                            !.pc = "info", !.attempts = @ + 1,
                            !.cancel = FALSE]]
             /\ hist' = h
             /\ UNCHANGED <<reconnect_evt, disconnect_evt, connect_task,
                            timer, app>>
        ELSE CycleEnd(i, EndKind(task[i].pc, e), h)

\* The task created for _do_reconnect(True) runs: the guard, and for the task
\* that passes it the first attempt (no throttle) up to get_mqtt_info.
TaskStart(i) ==
    /\ task[i].pc \in Spawned
    /\ IF AlreadyReconnecting
       THEN /\ task' = [task EXCEPT ![i] = FreeTask]
            /\ UNCHANGED <<reconnect_evt, hist>>
       ELSE /\ reconnect_evt' = TRUE
            /\ task' = [task EXCEPT ![i] = [FreeTask EXCEPT
                               !.pc = "info", !.attempts = NextAttempt(0)]]
            /\ hist' = [hist EXCEPT
                   !.cbLoops = IF task[i].pc = "spawned_cb" THEN @ + 1 ELSE @,
                   !.lastEnd = "none", !.gaveUp = FALSE, !.snap = {},
                   !.cnt = [t \in Topics |-> 0]]
    /\ UNCHANGED <<transportVars, connect_evt, disconnect_evt, connect_task,
                   topics, pending_acks, timer, app, subw>>
    /\ UNCHANGED host

\* asyncio.sleep(t) is over: the next attempt begins.
BackoffElapsed(i) ==
    /\ task[i].pc = "backoff"
    /\ ~TaskReady
    /\ task' = [task EXCEPT ![i] = [@ EXCEPT !.pc = "info",
                                            !.attempts = NextAttempt(@)]]
    /\ ncb' = Elapsed(ncb)
    /\ UNCHANGED <<tstate, sock, inflight, nextMid, connect_evt, disconnect_evt,
                   reconnect_evt, connect_task, topics, pending_acks, timer,
                   app, subw, hist>>
    /\ UNCHANGED host

\* get_mqtt_info returned, or failed (an exception, or the 5 s timeout).
InfoDone(i, ok) ==
    /\ task[i].pc = "info"
    /\ ~TaskReady
    /\ IF ok
       THEN /\ task' = [task EXCEPT ![i] = [@ EXCEPT !.pc = "exec"]]
            /\ host' \in Hosts
            /\ UNCHANGED <<reconnect_evt, disconnect_evt, connect_task, timer,
                           app, hist>>
       ELSE /\ \E e \in InfoFailures : Failed(i, e, hist)
            /\ UNCHANGED host
    /\ UNCHANGED <<transportVars, connect_evt, topics, pending_acks, subw>>

\* The executor's client.connect returned, or raised; after it the task waits
\* for connect_evt (a wait on a set Event is over at once).
ExecDone(i, ok) ==
    /\ task[i].pc = "exec"
    /\ ~TaskReady
    /\ ConnectResult(ok)
    /\ IF ok
       THEN /\ task' = [task EXCEPT ![i] = [@ EXCEPT !.pc = "wait_conn",
                                                    !.woken = connect_evt]]
            /\ UNCHANGED <<reconnect_evt, disconnect_evt, connect_task, timer,
                           app, hist>>
       ELSE \E e \in ConnectFailures : Failed(i, e, hist)
    /\ UNCHANGED <<connect_evt, topics, pending_acks, subw>>
    /\ UNCHANGED host

\* asyncio.wait_for(self.connect_evt.wait(), 2.0) timed out.
ConnWaitTimeout(i) ==
    /\ task[i].pc = "wait_conn" /\ ~task[i].woken
    /\ ~TaskReady
    /\ \E e \in WaitFailures : Failed(i, e, hist)
    /\ ncb' = Elapsed(ncb)
    /\ UNCHANGED <<tstate, sock, inflight, nextMid, connect_evt, topics,
                   pending_acks, subw>>
    /\ UNCHANGED host

\* The stale pending_acks are deleted: every key of the map.
CleanPending(p) == [m \in Mids |-> NoAck]

\* A resubscription that restores only the oldest topic.
FirstTopicOnly(tp) == IF tp = <<>> THEN {} ELSE {tp[1]}

\* topics_to_subscribe = list(set(self.topics))
TopicsToSubscribe(tp) == {tp[k] : k \in 1..Len(tp)}

\* The resubscription loop from its next topic on: every request the transport
\* refuses is logged and skipped; an accepted one is awaited.  With no topic
\* left the loop is left by `break` and the cycle ends.
ResubNext(i, todo, pend, h) ==
    IF todo = {} \/ ~Accepts
    THEN /\ CycleEnd(i, "break",
               [h EXCEPT !.cnt = [t \in Topics |->
                                    IF t \in todo THEN @[t] + 1 ELSE @[t]]])
         /\ pending_acks' = pend
         /\ UNCHANGED <<nextMid, inflight>>
    ELSE \E t \in todo :
         /\ task' = [task EXCEPT ![i] = [@ EXCEPT
                        !.pc = "resub_wait", !.woken = FALSE,
                        !.todo = todo \ {t}, !.mid = nextMid]]
         /\ pending_acks' = [pend EXCEPT ![nextMid] =
                                [topic |-> t, waiter |-> 0 - i]]
         /\ nextMid' = nextMid + 1
         /\ inflight' = [inflight EXCEPT ![nextMid] = t]
         /\ hist' = [h EXCEPT !.cnt[t] = @ + 1]
         /\ UNCHANGED <<reconnect_evt, disconnect_evt, connect_task, timer, app>>

\* The wait for connect_evt is over: the Event is checked again, and when it is
\* set the stale acknowledgments are dropped and the resubscription begins.
ConnWaitResume(i) ==
    /\ task[i].pc = "wait_conn" /\ task[i].woken /\ ~task[i].cancel
    /\ IF ~connect_evt
       THEN /\ Retry(i, hist)
            /\ UNCHANGED <<pending_acks, nextMid, inflight>>
       ELSE ResubNext(i, TopicsToSubscribe(topics), CleanPending(pending_acks),
                      [hist EXCEPT !.snap = Range(topics)])
    /\ UNCHANGED <<tstate, sock, ncb, connect_evt, topics, subw>>
    /\ UNCHANGED host

\* _subscribe_with_ack returned to the resubscription loop.
ResubAckResume(i) ==
    /\ task[i].pc = "resub_wait" /\ task[i].woken /\ ~task[i].cancel
    /\ ResubNext(i, task[i].todo, pending_acks, hist)
    /\ UNCHANGED <<tstate, sock, ncb, connect_evt, topics, subw>>
    /\ UNCHANGED host

\* The 5 s timeout around _subscribe_with_ack expired: logged, next topic.
ResubTimeout(i) ==
    /\ task[i].pc = "resub_wait" /\ ~task[i].woken
    /\ ~TaskReady
    /\ \E e \in ResubFailures :
          IF Handling(task[i].pc, e) = "next_topic"
          THEN ResubNext(i, task[i].todo, pending_acks, hist)
          ELSE /\ Failed(i, e, hist)
               /\ UNCHANGED <<pending_acks, nextMid, inflight>>
    /\ ncb' = Elapsed(ncb)
    /\ UNCHANGED <<tstate, sock, connect_evt, topics, subw>>
    /\ UNCHANGED host

\* The waits of the cycle that Task.cancel interrupts at once; the transport
\* connect runs in a thread of the executor, which a cancellation does not stop.
Cancellable == {"backoff", "info", "wait_conn", "resub_wait"}

\* Somebody that holds the task (the application through connect_task, or the
\* event loop that shuts down) calls its cancel(): the task becomes ready, and
\* what it was waiting for no longer resumes it.
CancelRequest(i) ==
    /\ task[i].pc \in Cancellable /\ ~task[i].cancel
    /\ task' = [task EXCEPT ![i] = [@ EXCEPT !.cancel = TRUE]]
    /\ UNCHANGED <<transportVars, connect_evt, disconnect_evt, reconnect_evt,
                   connect_task, topics, pending_acks, timer, app, subw, hist>>
    /\ UNCHANGED host

\* The event loop runs the cancelled task: CancelledError is raised at its
\* suspension point.
CancelDelivered(i) ==
    /\ task[i].cancel
    /\ Failed(i, "CancelledError", hist)
    /\ UNCHANGED <<transportVars, connect_evt, topics, pending_acks, subw>>
    /\ UNCHANGED host

\* ------------------------------------------------------ subscriptions
\* An entry filed under the id of the request before this one.
msg_id_previous == IF Accepts THEN nextMid - 1 ELSE 0

\* The message id client.subscribe returns: a fresh one, or None (id 0) when
\* the request is refused.
msg_id == IF Accepts THEN nextMid ELSE 0

\* subscribe(topic): the request, and the pending entry under the id the
\* transport returned (None, modelled as id 0, when it refused).
Subscribe(t) ==
    /\ pending_acks' = [pending_acks EXCEPT
                          ![msg_id] = [topic |-> t, waiter |-> 0]]
    /\ nextMid' = IF Accepts THEN nextMid + 1 ELSE nextMid
    /\ inflight' = IF Accepts THEN [inflight EXCEPT ![nextMid] = t] ELSE inflight
    /\ UNCHANGED <<tstate, sock, ncb, connect_evt, disconnect_evt, reconnect_evt,
                   connect_task, topics, timer, app, task, subw, hist>>
    /\ UNCHANGED host

\* _subscribe_with_ack(topic) called by an application task, up to its wait
\* (or to its return when the transport refused the request).
SubscribeWithAck(c, t) ==
    /\ subw[c].pc = "idle"
    /\ IF Accepts
       THEN /\ pending_acks' = [pending_acks EXCEPT ![nextMid] =
                                   [topic |-> t, waiter |-> c]]
            /\ subw' = [subw EXCEPT ![c] = [pc |-> "wait", mid |-> nextMid,
                                            woken |-> FALSE]]
            /\ nextMid' = nextMid + 1
            /\ inflight' = [inflight EXCEPT ![nextMid] = t]
            /\ UNCHANGED hist
       ELSE /\ hist' = [hist EXCEPT !.res = "refused"]
            /\ UNCHANGED <<pending_acks, nextMid, inflight, subw>>
    /\ UNCHANGED <<tstate, sock, ncb, connect_evt, disconnect_evt, reconnect_evt,
                   connect_task, topics, timer, app, task>>
    /\ UNCHANGED host

\* _subscribe_with_ack: the wait on its Event is over, it returns (res, msg_id).
SubscribeWithAckReturn(c) ==
    /\ subw[c].pc = "wait" /\ subw[c].woken
    /\ subw' = [subw EXCEPT ![c] = IdleCaller]
    /\ hist' = [hist EXCEPT !.res = "ok"]
    /\ UNCHANGED <<transportVars, connect_evt, disconnect_evt, reconnect_evt,
                   connect_task, topics, pending_acks, timer, app, task>>
    /\ UNCHANGED host

\* A timeout that is reported as success.
TimeoutSuccess == "ok"

\* What _subscribe_with_ack raises when its timeout expires.
TimeoutResult == "RequestError"

\* _subscribe_with_ack: asyncio.timeout(timeout) expired before the Event was set.
SubscribeWithAckTimeout(c) ==
    /\ subw[c].pc = "wait" /\ ~subw[c].woken
    /\ ~TaskReady
    /\ subw' = [subw EXCEPT ![c] = IdleCaller]
    /\ hist' = [hist EXCEPT !.res = TimeoutResult]
    /\ ncb' = Elapsed(ncb)
    /\ UNCHANGED <<tstate, sock, inflight, nextMid, connect_evt, disconnect_evt,
                   reconnect_evt, connect_task, topics, pending_acks, timer, app,
                   task>>
    /\ UNCHANGED host

\* A Topic Set that records every acknowledgment.
AppendTopic(tp, t) == Append(tp, t)

\* A Topic Set that holds the topic acknowledged last and nothing else.
ReplaceTopics(tp, t) == <<t>>

\* _on_subscribe: the topic is appended unless it is in self.topics.
AddTopic(tp, t) == IF t \in Range(tp) THEN tp ELSE Append(tp, t)

\* A correlation that ignores the message id: every waiting Event is set.
ResolvesAny(p, mid, w, m) == TRUE

\* _on_subscribe sets the Event stored under the message id: the one that
\* waiter w created for its request m, when the entry is w's and m is the id.
Resolves(p, mid, w, m) == p[mid].waiter = w /\ m = mid

\* A lookup that finds an entry under every id.
KnownAlways(p, mid) == TRUE

\* mid in self.pending_acks
Known(p, mid) == p[mid] # NoAck

\* _on_subscribe: the SUBACK of a request arrives.
OnSubscribe(mid) ==
    /\ inflight[mid] # NoTopic /\ sock /\ is_connected
    /\ inflight' = [inflight EXCEPT ![mid] = NoTopic]
    /\ hist' = [hist EXCEPT !.ackedTopics = @ \cup {inflight[mid]}]
    /\ IF Known(pending_acks, mid)
       THEN /\ topics' = AddTopic(topics, pending_acks[mid].topic)
            /\ subw' = [c \in Callers |->
                          IF /\ Resolves(pending_acks, mid, c, subw[c].mid)
                             /\ subw[c].pc = "wait"
                          THEN [subw[c] EXCEPT !.woken = TRUE] ELSE subw[c]]
            /\ task' = [i \in TaskIds |->
                          IF /\ Resolves(pending_acks, mid, 0 - i, task[i].mid)
                             /\ task[i].pc = "resub_wait"
                          THEN [task[i] EXCEPT !.woken = TRUE] ELSE task[i]]
            /\ pending_acks' = [pending_acks EXCEPT ![mid] = NoAck]
       ELSE UNCHANGED <<topics, subw, task, pending_acks>>
    /\ UNCHANGED <<tstate, sock, ncb, nextMid, connect_evt, disconnect_evt,
                   reconnect_evt, connect_task, timer, app>>
    /\ UNCHANGED host

\* ------------------------------------------------------------ handlers
\* add_event_handler(type, target): what it returns.
AddResult(hs, kind, target) ==
    IF kind \notin DOMAIN hs THEN "False"
    ELSE IF target \in Range(hs[kind]) THEN "True"
    ELSE "None"

\* A registry that appends whatever it is given.
AddHandlerAlways(hs, kind, target) ==
    IF kind \notin DOMAIN hs THEN hs
    ELSE [hs EXCEPT ![kind] = Append(@, target)]

\* add_event_handler(type, target): the registry it leaves.
AddHandler(hs, kind, target) ==
    IF kind \notin DOMAIN hs \/ target \in Range(hs[kind]) THEN hs
    ELSE [hs EXCEPT ![kind] = Append(@, target)]

AddEventHandler(kind, target) ==
    /\ handlers' = AddHandler(handlers, kind, target)
    /\ hist' = [hist EXCEPT !.res = AddResult(handlers, kind, target)]
    /\ UNCHANGED <<sessionVars, hq, calls, inbox>>

\* ------------------------------------------------------------ _on_message
\* message.topic.startswith(p)
StartsWith(s, p) == Len(s) >= Len(p) /\ SubSeq(s, 1, Len(p)) = p

\* str.split("/"): the pieces between the separators, empty ones included.
RECURSIVE Split(_)
Split(s) ==
    IF \A k \in 1..Len(s) : s[k] # "/" THEN <<s>>
    ELSE LET k == CHOOSE j \in 1..Len(s) :
                      s[j] = "/" /\ \A l \in 1..(j - 1) : s[l] # "/"
         IN <<SubSeq(s, 1, k - 1)>> \o Split(SubSeq(s, k + 1, Len(s)))

NoKey == [some |-> FALSE, seg |-> <<>>]

\* A routing key taken from the piece at index 1.
device_id_second(topic) ==
    IF StartsWith(topic, Prefix) THEN [some |-> TRUE, seg |-> Split(topic)[2]]
    ELSE NoKey

\* device_id: None, or the piece at index 2 of the split topic.
device_id(topic) ==
    IF StartsWith(topic, Prefix) THEN [some |-> TRUE, seg |-> Split(topic)[3]]
    ELSE NoKey

\* message.payload.decode() and json.loads: the exception, "none" without one.
DecodeError(p) == CASE p = "bytes" -> "UnicodeDecodeError"
                    [] p = "text" -> "JSONDecodeError"
                    [] OTHER -> "none"

\* json.loads of a payload that holds JSON: the decoded value.
JsonLoads(p) == CASE p = "json_1" -> 1
                  [] p = "json_2" -> 2
                  [] OTHER -> 0

\* A loop that stops after its first handler.
ScheduleFirst(hs, key, data) ==
    [k \in 1..(IF hs = <<>> THEN 0 ELSE 1) |->
        [h |-> hs[k], key |-> key, data |-> data]]

\* The loop over self._handlers["update"]: one ensure_future per handler.
Schedule(hs, key, data) ==
    [k \in 1..Len(hs) |-> [h |-> hs[k], key |-> key, data |-> data]]

\* _on_message reads the oldest message.  A payload that is no UTF-8 raises
\* out of the callback at once; one that is no JSON is logged, and the loop
\* then reads the unbound `data` as soon as there is a handler to call.
OnMessage ==
    /\ inbox # <<>> /\ sock /\ is_connected
    /\ inbox' = Tail(inbox)
    /\ LET m == Head(inbox)
           e == DecodeError(m.payload)
           hs == handlers["update"]
           new == Schedule(hs, device_id(m.topic), JsonLoads(m.payload))
       IN IF e = "UnicodeDecodeError"
          THEN hq' = hq /\ hist' = [hist EXCEPT !.err = e]
          ELSE IF e = "JSONDecodeError"
          THEN /\ hq' = hq
               /\ hist' = [hist EXCEPT !.err = IF hs = <<>> THEN "none"
                                                ELSE "UnboundLocalError"]
          ELSE /\ hq' = hq \o new
               /\ hist' = [hist EXCEPT !.err = "none"]
    /\ UNCHANGED <<sessionVars, handlers, calls>>

\* The event loop starts the oldest scheduled handler, a coroutine: it
\* returns, raises or waits for ever inside its own task, whose exception
\* nobody retrieves.
HandlerOutcomes == {"returned", "raised", "waiting"}
HandlerRun(o) ==
    /\ hq # <<>>
    /\ hq' = Tail(hq)
    /\ calls' = Append(calls, Head(hq))
    /\ hist' = [hist EXCEPT !.res = o]
    /\ UNCHANGED <<sessionVars, handlers, inbox>>

\* ------------------------------------------------------ specification
\* A step of the program or of the transport that is no failure.
Quiet(A) == A /\ UNCHANGED <<faults, dispVars>>

\* A failure produced by the environment: a refused or failed connect, a
\* request or wait that times out on the network's account, an unsolicited
\* loss of the socket.  Spec bounds their number.
Fault(A) ==
    /\ faults < MaxFaults /\ A /\ faults' = faults + 1
    /\ UNCHANGED dispVars

Unsolicited == ncb = 0 /\ tstate # "disconnecting"

\* The session with its subscriptions: explicit connects, subscriptions and
\* their acknowledgments, and the reconnect cycles that unsolicited losses of
\* the socket start, under a bounded number of failures.
Next ==
    \/ Quiet(OnConnect(0))
    \/ Quiet(~Unsolicited /\ OnDisconnect)
    \/ Fault(Unsolicited /\ OnDisconnect)
    \/ Quiet(AppConnect)
    \/ Quiet(AppConnectInfo("good"))
    \/ Quiet(AppConnectExec(TRUE))
    \/ \E i \in TaskIds : Quiet(TaskStart(i))
    \/ \E i \in TaskIds : Quiet(BackoffElapsed(i))
    \/ \E i \in TaskIds : Quiet(InfoDone(i, TRUE))
    \/ \E i \in TaskIds : Fault(InfoDone(i, FALSE))
    \/ \E i \in TaskIds : Quiet(ExecDone(i, TRUE))
    \/ \E i \in TaskIds : Fault(ConnWaitTimeout(i))
    \/ \E i \in TaskIds : Quiet(ConnWaitResume(i))
    \/ \E i \in TaskIds : Quiet(ResubAckResume(i))
    \/ \E i \in TaskIds : Quiet(ResubTimeout(i))
    \/ \E t \in Topics : Quiet(Subscribe(t))
    \/ \E c \in Callers, t \in Topics : Quiet(SubscribeWithAck(c, t))
    \/ \E c \in Callers : Quiet(SubscribeWithAckReturn(c))
    \/ \E c \in Callers : Quiet(SubscribeWithAckTimeout(c))
    \/ \E m \in 1..MaxMid : Quiet(OnSubscribe(m))

Spec == Init /\ [][Next]_vars

\* The connection and reconnection engine alone, under any number of failures.
NextEngine ==
    \/ \E rc \in {0, 5} : Quiet(OnConnect(rc))
    \/ Quiet(OnDisconnect)
    \/ Quiet(TimerFire)
    \/ Quiet(TimerResume)
    \/ Quiet(AppConnect)
    \/ \E r \in Responses : Quiet(AppConnectInfo(r))
    \/ \E ok \in BOOLEAN : Quiet(AppConnectExec(ok))
    \/ Quiet(AppDisconnectAndWait)
    \/ Quiet(AppDisconnectReturn)
    \/ \E i \in TaskIds : Quiet(TaskStart(i))
    \/ \E i \in TaskIds : Quiet(BackoffElapsed(i))
    \/ \E i \in TaskIds, ok \in BOOLEAN : Quiet(InfoDone(i, ok))
    \/ \E i \in TaskIds, ok \in BOOLEAN : Quiet(ExecDone(i, ok))
    \/ \E i \in TaskIds : Quiet(ConnWaitTimeout(i))
    \/ \E i \in TaskIds : Quiet(ConnWaitResume(i))
    \/ \E i \in TaskIds : Quiet(CancelRequest(i))
    \/ \E i \in TaskIds : Quiet(CancelDelivered(i))

SpecEngine == Init /\ [][NextEngine]_vars

\* A connected session whose Topic Set holds the topics the application has
\* subscribed to so far, in the order their acknowledgments arrived.
TopicOrders == {<<>>, <<"A">>, <<"A", "B">>, <<"B", "A">>}

InitResub ==
    /\ tstate = "connected"
    /\ sock = TRUE
    /\ ncb = 0
    /\ inflight = NoRequests
    /\ nextMid = 1
    /\ connect_evt = TRUE
    /\ disconnect_evt = "None"
    /\ reconnect_evt = FALSE
    /\ connect_task = "None"
    /\ topics \in TopicOrders
    /\ pending_acks = [m \in Mids |-> NoAck]
    /\ timer = "health"
    /\ app = "idle"
    /\ task = [i \in TaskIds |-> FreeTask]
    /\ subw = [c \in Callers |-> IdleCaller]
    /\ hist = [cbLoops |-> 0, localDisc |-> FALSE, lastEnd |-> "none",
               ackedTopics |-> Range(topics), res |-> "none",
               err |-> "none", gaveUp |-> FALSE,
               snap |-> {}, cnt |-> [t \in Topics |-> 0]]
    /\ faults = 0
    /\ host = "none"
    /\ handlers = NoHandlers
    /\ hq = <<>>
    /\ calls = <<>>
    /\ inbox = <<>>

\* The reconnect cycles of that session: losses of the socket, the attempts
\* with their failures, the resubscription with its acknowledgments and
\* timeouts, and subscriptions the application adds meanwhile.
NextResub ==
    \/ Quiet(OnConnect(0))
    \/ Quiet(~Unsolicited /\ OnDisconnect)
    \/ Fault(Unsolicited /\ OnDisconnect)
    \/ \E i \in TaskIds : Quiet(TaskStart(i))
    \/ \E i \in TaskIds : Quiet(BackoffElapsed(i))
    \/ \E i \in TaskIds : Quiet(InfoDone(i, TRUE))
    \/ \E i \in TaskIds : Fault(InfoDone(i, FALSE))
    \/ \E i \in TaskIds : Quiet(ExecDone(i, TRUE))
    \/ \E i \in TaskIds : Fault(ConnWaitTimeout(i))
    \/ \E i \in TaskIds : Quiet(ConnWaitResume(i))
    \/ \E i \in TaskIds : Quiet(ResubAckResume(i))
    \/ \E i \in TaskIds : Quiet(ResubTimeout(i))
    \/ \E t \in Topics : Quiet(Subscribe(t))
    \/ \E m \in 1..MaxMid : Quiet(OnSubscribe(m))

SpecResub == InitResub /\ [][NextResub]_vars

\* The same session with an application that also disconnects: everything
\* that happens to the Topic Set and around it.
NextTopics ==
    \/ NextResub
    \/ Quiet(AppDisconnectAndWait)
    \/ Quiet(AppDisconnectReturn)

SpecTopics == InitResub /\ [][NextTopics]_vars

\* A session that connect() has established, before any subscription.
Established ==
    /\ tstate = "connected"
    /\ sock = TRUE
    /\ ncb = 0
    /\ inflight = NoRequests
    /\ nextMid = 1
    /\ connect_evt = TRUE
    /\ disconnect_evt = "None"
    /\ reconnect_evt = FALSE
    /\ connect_task = "None"
    /\ topics = <<>>
    /\ pending_acks = [m \in Mids |-> NoAck]
    /\ timer = "health"
    /\ app = "idle"
    /\ task = [i \in TaskIds |-> FreeTask]
    /\ subw = [c \in Callers |-> IdleCaller]
    /\ hist = [cbLoops |-> 0, localDisc |-> FALSE, lastEnd |-> "none",
               ackedTopics |-> {}, res |-> "none", err |-> "none",
               gaveUp |-> FALSE,
               snap |-> {}, cnt |-> [t \in Topics |-> 0]]
    /\ faults = 0
    /\ host \in Hosts
    /\ hq = <<>>
    /\ calls = <<>>

\* The handler lists an application can have registered for one kind.
HandlerLists == {<<>>, <<"f">>, <<"g">>, <<"f", "g">>, <<"g", "f">>}

\* One inbound message, of any topic and payload, for a session with any
\* update handlers.
InitRoute ==
    /\ Established
    /\ handlers \in {[NoHandlers EXCEPT !["update"] = l] : l \in HandlerLists}
    /\ inbox \in {<<[topic |-> t, payload |-> q]>> :
                      t \in MsgTopics, q \in Payloads}

NextRoute ==
    \/ OnMessage
    \/ \E o \in HandlerOutcomes : HandlerRun(o)

SpecRoute == InitRoute /\ [][NextRoute]_vars

\* The application's side of a connected session: it registers handlers while
\* up to MaxMsgs messages arrive and their handlers run.
SampleTopics == {<<"prd", "/", "app_subscriptions", "/", "x">>, <<"x", "/", "x">>}
SampleMsgs == [topic : SampleTopics, payload : Payloads]

InitApi ==
    /\ Established
    /\ handlers = NoHandlers
    /\ inbox \in UNION {[1..n -> SampleMsgs] : n \in 0..MaxMsgs}

NextApi ==
    \/ \E k \in KindNames, t \in Targets : AddEventHandler(k, t)
    \/ OnMessage
    \/ \E o \in HandlerOutcomes : HandlerRun(o)

SpecApi == InitApi /\ [][NextApi]_vars

\* The engine of a connected session with a topic, for what it eventually
\* does: the drops, the health timer, the attempts with any number of
\* failures, the resubscription and cancellation.
NextLive ==
    \/ \E rc \in {0, 5} : Quiet(OnConnect(rc))
    \/ Quiet(OnDisconnect)
    \/ Quiet(TimerFire)
    \/ Quiet(TimerResume)
    \/ \E i \in TaskIds : Quiet(TaskStart(i))
    \/ \E i \in TaskIds : Quiet(BackoffElapsed(i))
    \/ \E i \in TaskIds, ok \in BOOLEAN : Quiet(InfoDone(i, ok))
    \/ \E i \in TaskIds, ok \in BOOLEAN : Quiet(ExecDone(i, ok))
    \/ \E i \in TaskIds : Quiet(ConnWaitTimeout(i))
    \/ \E i \in TaskIds : Quiet(ConnWaitResume(i))
    \/ \E i \in TaskIds : Quiet(ResubAckResume(i))
    \/ \E i \in TaskIds : Quiet(ResubTimeout(i))
    \/ \E m \in 1..MaxMid : Quiet(OnSubscribe(m))
    \/ \E i \in TaskIds : Quiet(CancelRequest(i))
    \/ \E i \in TaskIds : Quiet(CancelDelivered(i))

\* A step of a ready task: the event loop runs every ready task.
ReadyStep ==
    \/ \E i \in TaskIds : Quiet(TaskStart(i))
    \/ \E i \in TaskIds : Quiet(ConnWaitResume(i))
    \/ \E i \in TaskIds : Quiet(ResubAckResume(i))
    \/ \E i \in TaskIds : Quiet(CancelDelivered(i))
    \/ Quiet(TimerResume)

\* The end of a bounded wait of the cycle, or the answer to a request it made
\* to another host or to the executor: the throttle, get_mqtt_info inside its
\* 5 s, the transport's connect, the 2 s for connect_evt, the 5 s for an
\* acknowledgment.  They come whenever the event loop has no ready task left,
\* which it has again and again.
WaitStep ==
    \/ \E i \in TaskIds : Quiet(BackoffElapsed(i))
    \/ \E i \in TaskIds, ok \in BOOLEAN : Quiet(InfoDone(i, ok))
    \/ \E i \in TaskIds, ok \in BOOLEAN : Quiet(ExecDone(i, ok))
    \/ \E i \in TaskIds : Quiet(ConnWaitTimeout(i))
    \/ \E i \in TaskIds : Quiet(ResubTimeout(i))

InitLive == InitResub /\ topics = <<"A">>

SpecLive == InitLive /\ [][NextLive]_vars /\ WF_vars(ReadyStep) /\ SF_vars(WaitStep)

\* The same with an application that calls disconnect_and_wait; the transport
\* is not bound to deliver any callback.
NextWait ==
    \/ NextLive
    \/ Quiet(AppDisconnectAndWait)
    \/ Quiet(AppDisconnectReturn)

SpecWait ==
    /\ InitLive /\ [][NextWait]_vars
    /\ WF_vars(ReadyStep) /\ WF_vars(Quiet(AppDisconnectReturn))
    /\ SF_vars(WaitStep)

\* ------------------------------------------------------------ claims
\* The step is an _on_disconnect callback.
IsDisconnectCb == ncb < MaxCb /\ ncb' = ncb + 1

\* The step is the application's call of disconnect_and_wait.
IsLocalDisconnect == app = "idle" /\ app' = "dw_cur"

\* A reconnect task exists, created or running.
CycleInFlight == \E i \in TaskIds : task[i].pc # "free"

\* The step is the first callback of a socket loss that finds the session
\* connected, with no local disconnect requested since the last successful
\* connect and no reconnect task in existence.
IsUnsolicitedDrop ==
    /\ IsDisconnectCb /\ ncb = 0
    /\ connect_evt /\ is_connected /\ ~hist.localDisc
    /\ ~CycleInFlight

\* At most one retry loop (_do_reconnect past its guard) is executing, and the
\* callbacks of one lost socket have started at most one retry loop.
AtMostOneLoop == Cardinality(Running) <= 1 /\ hist.cbLoops <= 1


\* C1: at most one retry loop is executing at any time, and the disconnect
\* callbacks of one unsolicited drop while connected start exactly one cycle:
\* never a second one, and the first callback always one.
C1_SingleCycle ==
    /\ []AtMostOneLoop
    /\ [][IsUnsolicitedDrop => CycleInFlight']_vars

\* C2: a disconnect callback that arrives while disconnect_and_wait is waiting
\* resolves the caller's Event and creates no reconnect task.
C2_LocalDisconnectResolves ==
    [][(IsDisconnectCb /\ app \in {"dw_cur", "dw_orphan"})
         => (app' = "dw_fired" /\ task' = task)]_vars

\* C3: a disconnect callback that arrives while the session is connected and
\* with no local disconnect requested since the last successful connect
\* cancels the timer and schedules a reconnect cycle, also when the
\* application had disconnected and connected again before.
C3_UnsolicitedDropReconnects ==
    [][IsUnsolicitedDrop
         => (timer' = "off" /\ \E i \in TaskIds : task'[i].pc = "spawned_cb")]_vars

\* C4: a cycle never makes more than max_attempts attempts, and the cycle that
\* ends without a successful attempt has made exactly max_attempts, leaves
\* the in-progress flag cleared and leaves the session disconnected.
C4_BoundedRetries ==
    [][/\ \A i \in TaskIds : task'[i].attempts <= max_attempts
       /\ \A i \in TaskIds :
            (task[i].pc \in InLoop /\ task'[i].pc = "free"
               /\ hist'.lastEnd = "exhausted")
            => /\ task[i].attempts = max_attempts
               /\ ~reconnect_evt'
               /\ ~connect_evt']_vars

\* C5: the call of disconnect leaves no reconnect timer armed and no reconnect
\* task in a backoff wait.
C5_TeardownCancels ==
    [][IsLocalDisconnect
         => /\ timer' \notin {"watchdog", "health"}
            /\ \A i \in TaskIds : task'[i].pc # "backoff"]_vars

\* The step delivers the acknowledgment of the request with id m.
IsAck(m) ==
    /\ inflight[m] # NoTopic /\ inflight'[m] = NoTopic
    /\ is_connected /\ tstate' = tstate /\ sock /\ sock'

\* C6: the acknowledgment of a pending request, whatever the order in which
\* the acknowledgments arrive, resolves the wait of the caller that issued the
\* request with that id and of no other caller, a wait is resolved by nothing
\* but the acknowledgment of its own id, and the topic requested under that id
\* is in the Topic Set afterwards.
C6_AckCorrelation ==
    [][/\ \A m \in 1..MaxMid :
            (IsAck(m) /\ pending_acks[m] # NoAck)
            => /\ \A c \in Callers :
                    (subw'[c].woken # subw[c].woken)
                       <=> (subw[c].pc = "wait" /\ subw[c].mid = m)
               /\ inflight[m] \in Range(topics')
       /\ \A c \in Callers :
            (~subw[c].woken /\ subw'[c].woken) => IsAck(subw[c].mid)]_vars

\* C6 witness: two callers wait for distinct topics and the later request has
\* been acknowledged first.
C6_OutOfOrder ==
    /\ subw[1].pc = "wait" /\ ~subw[1].woken
    /\ subw[2].pc = "wait" /\ subw[2].woken
    /\ subw[1].mid < subw[2].mid
    /\ topics # <<>>
    /\ pending_acks[subw[1].mid].topic \notin Range(topics)

\* C7: a cycle that has observed the connection has requested no topic twice
\* and none outside the Topic Set of that moment, and when it ends it has
\* requested each of those topics once.
C7_ResubscribeOnce ==
    /\ \A t \in Topics : hist.cnt[t] <= (IF t \in hist.snap THEN 1 ELSE 0)
    /\ hist.lastEnd = "break"
         => \A t \in Topics : hist.cnt[t] = (IF t \in hist.snap THEN 1 ELSE 0)

\* C7 witness: a cycle has ended after resubscribing to both topics of a set
\* inserted as B, A; its first request timed out and its second was
\* acknowledged.
C7_BothAfterTimeout ==
    /\ hist.lastEnd = "break" /\ hist.snap = {"A", "B"}
    /\ topics = <<"B", "A">>
    /\ nextMid = 3
    /\ pending_acks[1].waiter < 0 /\ pending_acks[2] = NoAck

\* C8: the Topic Set holds exactly the topics of which a subscription request
\* has been acknowledged.
C8_TopicSetExact == Range(topics) = hist.ackedTopics

\* C9: no topic occurs twice in the Topic Set.
C9_NoDuplicates ==
    \A j, k \in 1..Len(topics) : topics[j] = topics[k] => j = k

\* C9 witness: two requests for the same topic have both been acknowledged.
C9_AckedTwice ==
    /\ topics = <<"A">> /\ nextMid = 3 /\ faults = 0
    /\ inflight = NoRequests
    /\ \A m \in Mids : pending_acks[m] = NoAck

\* C10: _subscribe_with_ack returns success only when its Event was set, which
\* only the acknowledgment of its own id does, and otherwise the timeout ends
\* it with RequestError.
C10_AckOrTimeout ==
    [][/\ \A c \in Callers :
            (subw[c].pc = "wait" /\ subw'[c].pc = "idle")
            => hist'.res = (IF subw[c].woken THEN "ok" ELSE "RequestError")
       /\ \A c \in Callers :
            (subw'[c].woken /\ ~subw[c].woken)
            => (inflight[subw[c].mid] # NoTopic /\ IsAck(subw[c].mid))]_vars

\* C10 witness: a request has timed out and its entry is still pending.
C10_TimedOut ==
    /\ hist.res = "RequestError"
    /\ \E m \in 1..MaxMid : pending_acks[m].waiter > 0

\* C11: when _subscribe_with_ack has finished, by acknowledgment or by
\* timeout, pending_acks holds no entry for the id of its request.
C11_PendingShortLived ==
    [][\A c \in Callers :
         (subw[c].pc = "wait" /\ subw'[c].pc = "idle")
         => pending_acks'[subw[c].mid] = NoAck]_vars

\* C12: subscribe(topic) records its entry, the topic without an Event, under
\* the id the transport returned and changes no other entry; an accepted
\* call has issued one request for that topic under that id; the call leaves
\* the Topic Set alone and makes nobody wait; and the Topic Set changes only
\* when an acknowledgment arrives, by the topic requested under its id.
C12_FireAndForget ==
    [][/\ \A m \in Mids :
            (/\ pending_acks'[m] # pending_acks[m]
             /\ pending_acks'[m].topic # NoTopic
             /\ pending_acks'[m].waiter = 0)
            => /\ m = (IF sock /\ nextMid <= MaxMid THEN nextMid ELSE 0)
               /\ \A k \in Mids \ {m} : pending_acks'[k] = pending_acks[k]
               /\ m # 0 => /\ nextMid' = nextMid + 1
                            /\ inflight' = [inflight EXCEPT
                                              ![m] = pending_acks'[m].topic]
               /\ topics' = topics /\ subw' = subw /\ task' = task
       /\ topics' # topics
            => \E m \in 1..MaxMid :
                  IsAck(m) /\ topics' = Append(topics, inflight[m])]_vars

\* C12 witness: a fire-and-forget request is pending under the id the
\* transport gave it, and its topic is not in the Topic Set.
C12_PendingUnacked ==
    \E m \in 1..MaxMid :
        /\ pending_acks[m].waiter = 0 /\ pending_acks[m].topic # NoTopic
        /\ inflight[m] = pending_acks[m].topic
        /\ pending_acks[m].topic \notin Range(topics)

\* The wait the Backoff Schedule declares after n attempts of a cycle.
DeclaredWait(n) == IF n = 0 THEN 0 ELSE IF n <= 3 THEN 2 ELSE IF n <= 6 THEN 10 ELSE 60

\* C13: the first attempt of a cycle follows the guard without a wait; the
\* wait before every other attempt is the declared function of the attempts
\* made so far, is at most 60 s and is not shorter than the wait before it.
C13_BackoffSchedule ==
    [][\A i \in TaskIds :
         /\ (task[i].pc \in Spawned /\ task'[i].pc \in InLoop)
              => (task'[i].pc = "info" /\ task'[i].attempts = 1
                  /\ DeclaredWait(task[i].attempts) = 0)
         /\ (task[i].pc # "backoff" /\ task'[i].pc = "backoff")
              => /\ task'[i].t = DeclaredWait(task'[i].attempts)
                 /\ task'[i].t >= task[i].t
                 /\ task'[i].t <= 60]_vars

\* C13 witness: a cycle waits 60 s, having made more than six attempts.
C13_LongWait ==
    \E i \in TaskIds :
        task[i].pc = "backoff" /\ task[i].attempts = 7 /\ task[i].t = 60

\* The step is _on_message reading a message.
IsMessage == inbox # <<>> /\ inbox' = Tail(inbox)

\* The topic starts with prd/app_subscriptions/.
HasRoutingPrefix(s) ==
    /\ Len(s) >= 4
    /\ s[1] = "prd" /\ s[2] = "/" /\ s[3] = "app_subscriptions" /\ s[4] = "/"

\* The text between the second '/' of a topic and the next '/' or the end.
ThirdSegment(s) ==
    LET sl == {k \in 1..Len(s) : s[k] = "/"}
        p2 == CHOOSE k \in sl : Cardinality({j \in sl : j < k}) = 1
        rest == {j \in sl : j > p2}
        p3 == IF rest = {} THEN Len(s) + 1
              ELSE CHOOSE k \in rest : \A j \in rest : k <= j
    IN SubSeq(s, p2 + 1, p3 - 1)

\* C14: a message whose payload decodes reaches every update handler with the
\* decoded payload and with the third '/'-separated segment of its topic as
\* routing key when the topic starts with prd/app_subscriptions/, and with no
\* key otherwise.
C14_RoutingKey ==
    [][(IsMessage /\ DecodeError(Head(inbox).payload) = "none")
         => LET m == Head(inbox)
                hs == handlers["update"]
                key == IF HasRoutingPrefix(m.topic)
                       THEN [some |-> TRUE, seg |-> ThirdSegment(m.topic)]
                       ELSE [some |-> FALSE, seg |-> <<>>]
            IN /\ hist'.err = "none"
               /\ hq' = hq \o [k \in 1..Len(hs) |->
                                 [h |-> hs[k], key |-> key,
                                  data |-> JsonLoads(m.payload)]]]_vars

\* C14 witness: a handler is scheduled with a routing key of two pieces of
\* text, taken from a topic that went on after the key.
C14_Routed ==
    /\ hq # <<>> /\ inbox = <<>>
    /\ hq[1].key = [some |-> TRUE, seg |-> <<"x", "prd">>]
    /\ hq[1].data = 2

\* C15: a message whose payload fails to decode is dropped: no handler is
\* scheduled or run for it and the callback raises nothing.
C15_MalformedDropped ==
    [][(IsMessage /\ DecodeError(Head(inbox).payload) # "none")
         => (hq' = hq /\ calls' = calls /\ hist'.err = "none")]_vars

\* C16: a well-formed message schedules one invocation per registered update
\* handler, in registration order, with its routing key and decoded payload;
\* the invocations start in that order, none is dropped, repeated or
\* overtaken whatever the outcome of the handlers before it; and a handler's
\* run, whatever its outcome, changes nothing of the session, the registry
\* or the messages still to be read.
C16_EveryHandlerOnce ==
    [][/\ (IsMessage /\ DecodeError(Head(inbox).payload) = "none")
            => hq' = hq \o
                 [k \in 1..Len(handlers["update"]) |->
                    [h |-> handlers["update"][k],
                     key |-> device_id(Head(inbox).topic),
                     data |-> JsonLoads(Head(inbox).payload)]]
       /\ Len(calls') >= Len(calls)
       /\ SubSeq(calls' \o hq', 1, Len(calls) + Len(hq)) = calls \o hq
       /\ SubSeq(calls', 1, Len(calls)) = calls
       /\ calls' # calls
            => /\ calls' = Append(calls, Head(hq))
               /\ UNCHANGED <<sessionVars, handlers, inbox>>]_vars

\* C16 witness: of two handlers scheduled for a message the first has run and
\* raised, and the second is still to start.
C16_AfterFailure ==
    /\ handlers["update"] = <<"g", "f">>
    /\ Len(calls) = 1 /\ calls[1].h = "g" /\ hist.res = "raised"
    /\ hq # <<>> /\ hq[1].h = "f"

\* What registering target t for kind k does to the registry, for a kind
\* that is one of known and for any other.
Registers(known, k, t) ==
    LET after == AddHandler(handlers, k, t)
    IN IF k \in known
       THEN /\ k \in DOMAIN after
            /\ after[k] = (IF t \in Range(handlers[k]) THEN handlers[k]
                           ELSE Append(handlers[k], t))
            /\ \A j \in DOMAIN after \ {k} : after[j] = handlers[j]
            /\ Cardinality({n \in 1..Len(after[k]) : after[k][n] = t}) = 1
            /\ AddHandler(after, k, t) = after
       ELSE /\ after = handlers
            /\ AddResult(handlers, k, t) = "False"

\* C17 as stated: the kinds are connected, disconnected and update.
C17_SpecKinds ==
    \A k \in KindNames, t \in Targets :
        Registers({"connected", "disconnected", "update"}, k, t)

\* C17: for the kinds connect, disconnect and update, registering a target
\* stores it once, after the targets already there, and registering it again
\* changes nothing; any other kind, connected and disconnected among them,
\* is rejected with the registry unchanged.
C17_Idempotent ==
    \A k \in KindNames, t \in Targets :
        Registers({"connect", "disconnect", "update"}, k, t)

\* C17 witness: a target has been registered again after another one was
\* added behind it.
C17_Duplicate ==
    handlers["update"] = <<"f", "g">> /\ hist.res = "True"

\* The errors get_mqtt_info raises on purpose to say that it could not get or
\* could not find the WebSocket/MQTT url.
ConnectionInfoErrors == {"Exception"}

\* C18: when get_mqtt_info fails inside connect(), connect() ends with a
\* connection-info error, and the endpoint, the timer, the flags and the
\* transport are as they were: no transport connect has been issued.
C18_InfoFailure ==
    [][(app = "c_info" /\ app' = "idle")
         => /\ hist'.err \in ConnectionInfoErrors
            /\ UNCHANGED <<host, timer, tstate, sock, connect_evt,
                           disconnect_evt, reconnect_evt, connect_task>>]_vars

\* The step is the reconnect timer's job entering _process_reconnect.
IsTimerTrigger ==
    /\ timer \in {"watchdog", "health"} /\ timer' \in {"off", "pw_cur"}
    /\ ~IsDisconnectCb

\* The step is a disconnect callback that takes the unsolicited-drop branch.
IsCallbackTrigger == IsDisconnectCb /\ disconnect_evt = "None" /\ is_connected

\* C19: a reconnect trigger, from the disconnect callback or from the timer,
\* that arrives while a retry loop is running starts no second loop and
\* leaves the in-progress flag, the loop's attempt count and the
\* disconnect-requested signal unchanged, and the timer's trigger leaves the
\* transport connection unchanged.
C19_SecondTriggerNoOp ==
    [][((IsTimerTrigger \/ IsCallbackTrigger) /\ Running # {})
         => /\ Running' = Running
            /\ \A i \in Running : task'[i].attempts = task[i].attempts
            /\ reconnect_evt' = reconnect_evt
            /\ disconnect_evt' = disconnect_evt
            /\ IsTimerTrigger => (tstate' = tstate /\ sock' = sock)]_vars

\* C20: a cycle that ends after an attempt has achieved the connection does
\* not report giving up, and a cycle that ends with no such attempt does.
C20_GivingUpIffNoSuccess ==
    [][\A i \in TaskIds :
         (task[i].pc \in InLoop /\ task'[i].pc = "free")
         => /\ hist'.lastEnd = "break" => ~hist'.gaveUp
            /\ hist'.lastEnd = "exhausted" => hist'.gaveUp]_vars

\* The step ends an attempt of task i in failure: the connection info was not
\* obtained, the transport's connect raised, or no connected signal was
\* observed.
AttemptFails(i) ==
    /\ task[i].pc \in {"info", "exec", "wait_conn"} /\ ~task[i].cancel
    /\ task'[i].pc \in {"backoff", "free"}
    /\ hist'.lastEnd # "break"

\* C21: a failed attempt is absorbed: the cycle goes on to the throttle before
\* its next attempt, or ends exhausted when the failed attempt was the last
\* one, and nothing is raised out of the task, raised to the application or
\* handed to a handler; every attempt adds one to the count of attempts, and
\* nothing else changes the count.
C21_FailureAbsorbed ==
    [][\A i \in TaskIds :
         /\ AttemptFails(i)
              => /\ IF task[i].attempts < max_attempts
                    THEN /\ task'[i].pc = "backoff"
                         /\ task'[i].attempts = task[i].attempts
                    ELSE hist'.lastEnd = "exhausted"
                 /\ hist'.lastEnd \notin {"raised", "cancelled", "cancelled_sleep"}
                 /\ hist'.err = hist.err
                 /\ hq' = hq /\ calls' = calls
         /\ (task[i].pc \in InLoop /\ task'[i].pc \in InLoop)
              => task'[i].attempts =
                    (IF task[i].pc = "backoff" /\ task'[i].pc = "info"
                     THEN task[i].attempts + 1 ELSE task[i].attempts)]_vars

\* C21 witness: a cycle is in its third attempt, connecting, after two
\* failures, and the application has seen no error.
C21_ThirdAttempt ==
    \E i \in TaskIds :
        /\ task[i].pc = "exec" /\ task[i].attempts = 3
        /\ reconnect_evt /\ hist.err = "none" /\ hist.lastEnd = "none"

\* Task i has observed the connection of its attempt: it is about to start
\* the resubscription, or is in it.
InResubscription(i) ==
    /\ ~task[i].cancel
    /\ \/ task[i].pc = "wait_conn" /\ task[i].woken /\ connect_evt
       \/ task[i].pc = "resub_wait"

\* C22: once a cycle has observed the connection, every step of it stays in
\* the resubscription or ends the cycle by `break`, whether the topics are
\* acknowledged, refused or time out: it makes no further attempt, and
\* nothing is raised out of the task or to the application.
C22_ResubscriptionNotFatal ==
    [][\A i \in TaskIds :
         (InResubscription(i) /\ task'[i] # task[i] /\ ~task'[i].cancel)
         => /\ task'[i].pc \in {"resub_wait", "free"}
            /\ task'[i].pc = "free" => hist'.lastEnd = "break"
            /\ task'[i].pc = "resub_wait"
                 => task'[i].attempts = task[i].attempts
            /\ hist'.err = hist.err]_vars

\* C22 witness: a cycle has ended by `break` although the request for a topic
\* of its snapshot timed out: its entry is left and its acknowledgment is
\* still to come.
C22_PartialSuccess ==
    /\ hist.lastEnd = "break" /\ \A i \in TaskIds : task[i].pc = "free"
    /\ \E m \in 1..MaxMid :
          /\ pending_acks[m].waiter < 0
          /\ pending_acks[m].topic \in hist.snap
          /\ inflight[m] = pending_acks[m].topic

\* The step is task i dropping the stale acknowledgments: it has observed the
\* connection of its attempt and starts the resubscription.
IsCleanup(i) ==
    /\ task[i].pc = "wait_conn" /\ task[i].woken /\ connect_evt
    /\ ~task[i].cancel /\ task'[i] # task[i]

\* C23: the cleanup leaves no entry in pending_acks but that of the first
\* resubscription request, which follows it in the same step, and the entries
\* it discards are none of a request issued on the connection the cycle has
\* just observed and not yet acknowledged.
C23_CleanupOnlyStale ==
    [][\A i \in TaskIds :
         IsCleanup(i)
         => /\ \A m \in Mids :
                 pending_acks'[m] # NoAck
                 => (m = nextMid /\ nextMid' = nextMid + 1
                       /\ pending_acks'[m].waiter = 0 - i)
            /\ \A m \in Mids :
                 (pending_acks[m] # NoAck /\ pending_acks'[m] = NoAck)
                 => inflight[m] = NoTopic]_vars

\* The step is _on_connect: the CONNACK of the pending CONNECT.
IsConnack == sock /\ sock' /\ tstate = "connecting" /\ tstate' \in {"connected", "new"}

\* C24: _on_connect with reason code 0 sets connect_evt and replaces whatever
\* job the timer had by the one-hour health timer; with any other reason code
\* it changes neither connect_evt nor the timer.
C24_ConnackEffect ==
    [][/\ (IsConnack /\ tstate' = "connected")
            => (connect_evt' /\ timer' = "health" /\ Period(timer') = 3600)
       /\ (IsConnack /\ tstate' = "new")
            => (connect_evt' = connect_evt /\ timer' = timer)]_vars

\* C24 witness: connect() has been answered by an accepted CONNACK: the
\* session is connected, the health timer has replaced the watchdog and no
\* reconnect task has ever been created.
C24_HealthArmed ==
    /\ timer = "health" /\ connect_evt /\ is_connected /\ sock
    /\ app = "idle" /\ hist.cbLoops = 0 /\ connect_task = "None"
    /\ \A i \in TaskIds : task[i].pc = "free"

\* The step is the health timer's job entering _process_reconnect while the
\* session is connected.
IsHealthFire ==
    /\ IsTimerTrigger /\ timer = "health"
    /\ is_connected /\ sock /\ connect_evt

\* C25: when the health timer fires while the session is connected the engine
\* asks the transport to disconnect and creates no task yet; while it waits
\* it keeps waiting until the disconnect callback, which resumes it and
\* creates no task of its own (only an explicit connect() replaces the
\* waiting job); resumed, it creates the reconnect task while no cycle is in
\* progress, and the task's first attempt follows its guard without a
\* throttle.
C25_ProactiveReconnect ==
    [][/\ IsHealthFire
            => (tstate' = "disconnecting" /\ timer' = "pw_cur" /\ task' = task)
       /\ (timer = "pw_cur" /\ IsDisconnectCb)
            => (timer' = "pw_fired" /\ task' = task)
       /\ (timer = "pw_cur" /\ ~IsDisconnectCb)
            => timer' \in {"pw_cur", "watchdog"}
       /\ (timer = "pw_fired" /\ timer' # "pw_fired")
            => /\ \E i \in TaskIds :
                    task[i].pc = "free" /\ task'[i].pc = "spawned_timer"
               /\ ~reconnect_evt
       /\ \A i \in TaskIds :
            (task[i].pc = "spawned_timer" /\ task'[i] # task[i]
               /\ ~reconnect_evt)
            => (task'[i].pc = "info" /\ task'[i].attempts = 1)]_vars

\* No reconnect task exists and the timer has no job that would create one.
Dormant ==
    /\ \A i \in TaskIds : task[i].pc = "free"
    /\ timer \notin {"watchdog", "health", "pw_cur", "pw_fired"}

\* The step ends the cycle of task i for want of attempts.
EndsExhausted(i) ==
    task[i].pc \in InLoop /\ task'[i].pc = "free" /\ hist'.lastEnd = "exhausted"

\* C26: a cycle that ends exhausted leaves the flags that would block the
\* next cycle cleared and, unless the application is inside a call of its
\* own, leaves no task and no armed timer; from then on the engine stays
\* that way until the application calls in or a disconnect callback takes
\* the unsolicited-drop branch.
C26_ExhaustedIsDormant ==
    [][/\ \A i \in TaskIds :
            EndsExhausted(i)
            => /\ ~reconnect_evt' /\ connect_task' = "None"
               /\ disconnect_evt' = "None"
               /\ app = "idle" => Dormant'
       /\ (hist.lastEnd = "exhausted" /\ Dormant /\ app = "idle"
             /\ app' = "idle" /\ ~IsCallbackTrigger)
            => Dormant']_vars

\* C27: a cycle whose task is cancelled in its throttle does nothing until the
\* cancellation reaches it, and then ends without another attempt: it never
\* goes on to fetch the connection info or to connect, its end clears the
\* in-progress flag, and the transport is as it was.
C27_CancelledInBackoff ==
    [][\A i \in TaskIds :
         (task[i].pc = "backoff" /\ task[i].cancel /\ task'[i] # task[i])
         => /\ task'[i].pc = "free"
            /\ hist'.lastEnd = "cancelled_sleep"
            /\ ~reconnect_evt' /\ connect_task' = "None"
            /\ UNCHANGED <<tstate, sock, host>>]_vars

\* C27 witness: a cycle has ended by cancellation in a throttle, and nothing
\* of the engine is left: no task, no flag, no timer, no socket.
C27_EndedInSleep ==
    /\ hist.lastEnd = "cancelled_sleep" /\ ~reconnect_evt
    /\ \A i \in TaskIds : task[i].pc = "free"
    /\ timer = "off" /\ ~sock

\* C28: a wait for the completion of a disconnect ends, whatever the transport
\* delivers: disconnect_and_wait returns, and the timer's job leaves
\* _process_reconnect.
C28_DisconnectWaitBounded ==
    /\ (app \in {"dw_cur", "dw_orphan"}) ~> (app = "idle")
    /\ (timer \in {"pw_cur", "pw_orphan"}) ~> (timer \notin {"pw_cur", "pw_orphan"})

\* C29: every cycle that has started ends, and ends with the in-progress flag
\* cleared.
C29_CycleTerminates ==
    \A i \in TaskIds :
        (task[i].pc \in InLoop) ~> (task[i].pc = "free" /\ ~reconnect_evt)

\* C29 witness: a cycle has used up its attempts and ended.
C29_Exhausted ==
    /\ hist.lastEnd = "exhausted" /\ hist.gaveUp /\ ~reconnect_evt
    /\ \A i \in TaskIds : task[i].pc = "free"

\* C30: the acknowledgment of an id that has no entry in pending_acks changes
\* neither the Topic Set nor pending_acks, wakes no waiter, neither a caller
\* of _subscribe_with_ack nor a resubscribing cycle, and raises nothing.
C30_UnknownAckIgnored ==
    [][\A m \in 1..MaxMid :
         (IsAck(m) /\ pending_acks[m] = NoAck)
         => /\ topics' = topics
            /\ pending_acks' = pending_acks
            /\ subw' = subw /\ task' = task
            /\ hist'.err = hist.err]_vars

\* C30 witness: an acknowledgment has arrived for a request whose entry was
\* gone: its topic was acknowledged and is not in the Topic Set, while another
\* caller is still waiting for its own.
C30_AckWithoutEntry ==
    /\ hist.ackedTopics \ Range(topics) # {}
    /\ \E c \in Callers : subw[c].pc = "wait" /\ ~subw[c].woken

\* C31: no step removes a topic from the Topic Set or moves one: the list
\* after the step begins with the list before it.
C31_TopicsNeverShrink ==
    [][/\ Len(topics') >= Len(topics)
       /\ SubSeq(topics', 1, Len(topics)) = topics]_vars

\* C31 witness: a session that began with B and A has lost its socket, gone
\* through a reconnect cycle whose resubscription was not acknowledged, and
\* been disconnected by the application, and still holds B and A.
C31_SurvivedCycle ==
    /\ topics = <<"B", "A">>
    /\ hist.lastEnd = "break" /\ hist.snap = {"A", "B"}
    /\ \E m \in 1..MaxMid : pending_acks[m].waiter < 0
    /\ hist.localDisc /\ ~sock

\* The transport connect calls that the executor is running.
ConnectCalls ==
    Cardinality({i \in TaskIds : task[i].pc = "exec"})
       + (IF app = "c_exec" THEN 1 ELSE 0)

\* C32: the executor runs at most one transport connect call at a time.
C32_OneConnectCall == ConnectCalls <= 1

\* C33: when a cycle treats its attempt as successful and begins the
\* resubscription, the transport is connected: the CONNACK of the connection
\* that the attempt opened has arrived.
C33_OwnAcknowledgment ==
    [][\A i \in TaskIds :
         IsCleanup(i) => (is_connected /\ sock)]_vars

\* The step is connect() arming the watchdog before it hands the transport
\* connect to the executor.
IsExplicitConnect == app = "c_info" /\ app' = "c_exec"

\* The step is the watchdog's job entering _process_reconnect.
IsWatchdogFire == IsTimerTrigger /\ timer = "watchdog"

\* C34: connect() arms the 5 s watchdog; an accepted CONNACK that finds the
\* watchdog armed replaces it by the one-hour health timer and creates no
\* task; the watchdog that fires first, the client not being connected,
\* creates the reconnect task, and that task starts a cycle whose first
\* attempt follows its guard without a throttle.
C34_Watchdog ==
    [][/\ IsExplicitConnect
            => (timer' = "watchdog" /\ Period(timer') = 5)
       /\ (IsConnack /\ tstate' = "connected" /\ timer = "watchdog")
            => /\ timer' = "health" /\ Period(timer') = 3600
               /\ \A i \in TaskIds : task[i].pc = "free" => task'[i].pc = "free"
       /\ (IsWatchdogFire /\ ~is_connected)
            => \E i \in TaskIds :
                  task[i].pc = "free" /\ task'[i].pc = "spawned_timer"
       /\ \A i \in TaskIds :
            (task[i].pc = "spawned_timer" /\ task'[i] # task[i])
            => (task'[i].pc = "info" /\ task'[i].attempts = 1
                  /\ DeclaredWait(0) = 0)]_vars

\* C34, with the cases the code distinguishes: connect() arms the 5 s
\* watchdog; an accepted CONNACK that finds it armed replaces it by the
\* one-hour health timer and creates no task; the watchdog that fires
\* creates the reconnect task at once when the client is not connected, and
\* when it is connected asks the transport to disconnect and waits for the
\* callback first; the task starts a cycle, whose first attempt follows the
\* guard without a throttle, when no cycle is in progress, and otherwise
\* returns at the guard and leaves the running cycle and its flag alone.
C34_WatchdogGuarded ==
    [][/\ IsExplicitConnect
            => (timer' = "watchdog" /\ Period(timer') = 5)
       /\ (IsConnack /\ tstate' = "connected" /\ timer = "watchdog")
            => /\ timer' = "health" /\ Period(timer') = 3600
               /\ \A i \in TaskIds : task[i].pc = "free" => task'[i].pc = "free"
       /\ IsWatchdogFire
            => IF is_connected
               THEN /\ timer' = "pw_cur" /\ task' = task
                    /\ tstate' = ClientDisconnect
               ELSE \E i \in TaskIds :
                       /\ task[i].pc = "free" /\ task'[i].pc = "spawned_timer"
                       /\ \A j \in TaskIds \ {i} : task'[j] = task[j]
       /\ \A i \in TaskIds :
            (task[i].pc = "spawned_timer" /\ task'[i] # task[i])
            => IF reconnect_evt
               THEN /\ task'[i].pc = "free" /\ reconnect_evt'
                    /\ \A j \in TaskIds \ {i} : task'[j] = task[j]
               ELSE /\ task'[i].pc = "info" /\ task'[i].attempts = 1
                    /\ DeclaredWait(0) = 0 /\ reconnect_evt']_vars

\* C34 witness: the watchdog of a connect() that is still in the executor has
\* fired and the cycle it started is in its first attempt.
C34_WatchdogCycle ==
    /\ app = "c_exec" /\ timer = "off" /\ tstate = "new"
    /\ hist.cbLoops = 0 /\ reconnect_evt /\ connect_task = "Task"
    /\ \E i \in TaskIds : task[i].pc = "info" /\ task[i].attempts = 1

\* C35: every exit from a running reconnect cycle (success, exhaustion,
\* exception, cancellation) leaves the in-progress flag clear, the task handle
\* None and the disconnect-requested signal None; after every step the flag is
\* set exactly when one retry loop is executing; the task that returns at the
\* guard of _do_reconnect changes none of the three.
IsCycleExit(i) == task[i].pc \in InLoop /\ task'[i].pc = "free"

IsGuardReturn(i) == task[i].pc \in Spawned /\ task'[i].pc = "free"

C35_ExitClears ==
    [][/\ \A i \in TaskIds : IsCycleExit(i) =>
              /\ ~reconnect_evt'
              /\ connect_task' = "None"
              /\ disconnect_evt' = "None"
       /\ \A i \in TaskIds : IsGuardReturn(i) =>
              /\ reconnect_evt
              /\ UNCHANGED <<reconnect_evt, connect_task, disconnect_evt>>
       /\ reconnect_evt' <=> (Cardinality(Running') = 1)]_vars

\* A cycle was cancelled and its finally clause left all three clear.
C35_CancelledAndCleared ==
    /\ hist.lastEnd \in {"cancelled", "cancelled_sleep"}
    /\ ~reconnect_evt
    /\ connect_task = "None"
    /\ disconnect_evt = "None"
    /\ Running = {}

\* C36: every key of the pending-acknowledgment map is a request id that the
\* transport assigned to a subscribe request it accepted; a refused request
\* (no request id, modelled as id 0) records no entry.
C36_KeysAreAssignedIds ==
    \A m \in Mids : pending_acks[m] # NoAck => (m >= 1 /\ m < nextMid)

====
